---- MODULE Spec2Model ----
(***************************************************************************)
(* A model of the ASCII-sprite RPG prototype (src/Untitled-1.py): the      *)
(* dialogue state machine, the quest flags, the tile map and the           *)
(* axis-separated movement, driven by one action per frame of main().      *)
(***************************************************************************)
EXTENDS Integers, Sequences, FiniteSets, TLC

VARIABLES
    pc,               \* position in main(): "setup", "loop", "chain", "probed", or "KeyError" (uncaught)
    dialogues,        \* dialogues: [elder |-> tree, gatekeeper |-> tree], each tree by reference
    flags,            \* gs.flags: a dict from flag name to bool (absent keys allowed)
    active_dialogue,  \* None (<<>>) or <<ActiveDialogue>>
    tile_map,         \* tile_map, by reference (a name of Maps)
    npc_pos,          \* the pos of each entity of npcs
    player_pos,       \* player.pos
    drawn,            \* the choice lines of the dialogue panel as last rendered
    did,              \* which dispatch branch of the frame acted, and on which choice
    chain,            \* length of a chain of followed choices (FollowChoice)
    call,             \* None or <<record>>: the function call made by the last step of a specification that records one
    diagonals         \* the number of frames so far that moved with two perpendicular keys held

vars == << pc, dialogues, flags, active_dialogue, tile_map, npc_pos, player_pos, drawn, did, chain, call,
           diagonals >>

(***************************************************************************)
(* Bounds of the model.                                                    *)
(***************************************************************************)
\* The number keys of the model: K_1 .. give choose_number 0 .. NumberKeys - 1
\* (the keyboard has K_1 .. K_9).
NumberKeys == 5
\* The chain counter saturates here.
MaxChain == 6
\* clock.tick(60) returns whole milliseconds.  A frame of the walks lasts this many
\* fiftieths of a second; a step along an axis is then a whole number of pixels
\* (3 px in 20 ms at 150 px/s), a step along a diagonal is not.
FrameFiftieths == 8
FrameMillis == 20 * FrameFiftieths
\* The frames of a run that move with two perpendicular keys held.
MaxDiagonal == 1

(***************************************************************************)
(* Python's None for optional strings and numbers.                         *)
(***************************************************************************)
NoneId == "<None>"
NoNumber == -1
None == << >>

(***************************************************************************)
(* GameState                                                               *)
(***************************************************************************)
EmptyFlags == [k \in {} |-> FALSE]

\* A variant of has that tells whether the key is in the dict.
has_key_present(gs, key) == key \in DOMAIN gs

has(gs, key) == key \in DOMAIN gs /\ gs[key]

\* A variant of set that makes the store hold the one key.
set_replaces_store(gs, key, value) == [k \in {key} |-> value]

set(gs, key, value) == [k \in (DOMAIN gs) \cup {key} |-> IF k = key THEN value ELSE gs[k]]

(***************************************************************************)
(* Predicates and effects are closures over the GameState in the source.   *)
(* A predicate is represented by the conjunction of has()-literals it      *)
(* evaluates, an effect by the gs.set call it makes.                       *)
(***************************************************************************)
NoPredicate == [none |-> TRUE, lits |-> << >>]
Lit(key, want) == [key |-> key, want |-> want]
Predicate(lits) == [none |-> FALSE, lits |-> lits]

NoEffect == [none |-> TRUE, key |-> "", value |-> FALSE]
Effect(key, value) == [none |-> FALSE, key |-> key, value |-> value]

CallPredicate(p, gs) == \A i \in 1..Len(p.lits) : has(gs, p.lits[i].key) = p.lits[i].want

CallEffect(e, gs) == set(gs, e.key, e.value)

\* "if choice.effect: choice.effect(gs)" and "if node.on_enter: node.on_enter(gs)"
ApplyOptional(e, gs) == IF e.none THEN gs ELSE CallEffect(e, gs)

(***************************************************************************)
(* Dialogue data classes                                                   *)
(***************************************************************************)
DialogueChoice(text, next_id, enabled_if, effect) ==
    [text |-> text, next_id |-> next_id, enabled_if |-> enabled_if, effect |-> effect]

DialogueNode(id, choices, on_enter) ==
    [id |-> id, choices |-> choices, on_enter |-> on_enter]

\* The dataclass constructor: it stores its two fields.
DialogueTree(nodes, start_id) == [nodes |-> nodes, start_id |-> start_id]


ActiveDialogue(npc_name, tree, node_id) ==
    [npc_name |-> npc_name, tree |-> tree, node_id |-> node_id, selected_idx |-> 0]

(***************************************************************************)
(* build_dialogues                                                         *)
(***************************************************************************)
give_coin == Effect("got_coin", TRUE)
\* A variant of coin_not_yet without the negation.
coin_not_yet_inverted == Predicate(<< Lit("got_coin", TRUE) >>)

coin_not_yet == Predicate(<< Lit("got_coin", FALSE) >>)
open_gate == Effect("gate_open", TRUE)

\* The texts are the source's, with its typographic apostrophe (U+2019) written '.
ElderTree ==
    DialogueTree(
        [ start |-> DialogueNode("start",
              << DialogueChoice("Who are you?", "who", NoPredicate, NoEffect),
                 DialogueChoice("Any advice?", "advice", NoPredicate, NoEffect),
                 DialogueChoice("Goodbye.", NoneId, NoPredicate, NoEffect) >>,
              NoEffect),
          who |-> DialogueNode("who",
              << DialogueChoice("I'm looking for work.", "work", NoPredicate, NoEffect),
                 DialogueChoice("Back.", "start", NoPredicate, NoEffect) >>,
              NoEffect),
          advice |-> DialogueNode("advice",
              << DialogueChoice("Back.", "start", NoPredicate, NoEffect) >>,
              NoEffect),
          work |-> DialogueNode("work",
              << DialogueChoice("Thanks.", "start", coin_not_yet, give_coin),
                 DialogueChoice("I already have it.", "start",
                                Predicate(<< Lit("got_coin", TRUE) >>), NoEffect) >>,
              NoEffect) ],
        "start")

\* A variant of GatekeeperTree whose coin choice does not ask for the coin.
GatekeeperTree_coin_unchecked ==
    DialogueTree(
        [ start |-> DialogueNode("start",
              << DialogueChoice("Elder sent me.", "proof", NoPredicate, NoEffect),
                 DialogueChoice("Why closed?", "why", NoPredicate, NoEffect),
                 DialogueChoice("Goodbye.", NoneId, NoPredicate, NoEffect) >>,
              NoEffect),
          why |-> DialogueNode("why",
              << DialogueChoice("Back.", "start", NoPredicate, NoEffect) >>,
              NoEffect),
          proof |-> DialogueNode("proof",
              << DialogueChoice("Here's a coin from Elder Kora.", "open",
                                Predicate(<< Lit("gate_open", FALSE) >>),
                                NoEffect),
                 DialogueChoice("I don't have proof.", "start",
                                Predicate(<< Lit("got_coin", FALSE) >>), NoEffect),
                 DialogueChoice("The gate is already open.", "start",
                                Predicate(<< Lit("gate_open", TRUE) >>), NoEffect) >>,
              NoEffect),
          open |-> DialogueNode("open",
              << DialogueChoice("On my way.", NoneId, NoPredicate, open_gate) >>,
              NoEffect) ],
        "start")

GatekeeperTree ==
    DialogueTree(
        [ start |-> DialogueNode("start",
              << DialogueChoice("Elder sent me.", "proof", NoPredicate, NoEffect),
                 DialogueChoice("Why closed?", "why", NoPredicate, NoEffect),
                 DialogueChoice("Goodbye.", NoneId, NoPredicate, NoEffect) >>,
              NoEffect),
          why |-> DialogueNode("why",
              << DialogueChoice("Back.", "start", NoPredicate, NoEffect) >>,
              NoEffect),
          proof |-> DialogueNode("proof",
              << DialogueChoice("Here's a coin from Elder Kora.", "open",
                                Predicate(<< Lit("got_coin", TRUE), Lit("gate_open", FALSE) >>),
                                NoEffect),
                 DialogueChoice("I don't have proof.", "start",
                                Predicate(<< Lit("got_coin", FALSE) >>), NoEffect),
                 DialogueChoice("The gate is already open.", "start",
                                Predicate(<< Lit("gate_open", TRUE) >>), NoEffect) >>,
              NoEffect),
          open |-> DialogueNode("open",
              << DialogueChoice("On my way.", NoneId, NoPredicate, open_gate) >>,
              NoEffect) ],
        "start")

\* The return value, each tree by reference.
build_dialogues == [elder |-> "ElderTree", gatekeeper |-> "GatekeeperTree"]

(***************************************************************************)
(* Dialogue graphs other than the shipped ones, as further arguments of    *)
(* the DialogueTree constructor.  GraphA is valid and has on-enter         *)
(* effects (also on its start node), choices that unset a flag, a node     *)
(* whose only choice can be disabled and a node without choices.  GraphDangling has a choice whose  *)
(* target is no node; GraphBadStart has a start id that is no node.        *)
(***************************************************************************)
GraphA ==
    DialogueTree(
        [ n0 |-> DialogueNode("n0",
              << DialogueChoice("hidden", "n2", Predicate(<< Lit("f", TRUE) >>), NoEffect),
                 DialogueChoice("greet", "n1", Predicate(<< Lit("g", TRUE) >>), Effect("f", TRUE)),
                 DialogueChoice("skip", "n2", NoPredicate, NoEffect),
                 DialogueChoice("end", NoneId, NoPredicate, NoEffect) >>,
              Effect("g", TRUE)),
          n1 |-> DialogueNode("n1",
              << DialogueChoice("stale", "n0", Predicate(<< Lit("g", TRUE) >>), NoEffect),
                 DialogueChoice("fresh", "n0", Predicate(<< Lit("g", FALSE) >>), Effect("f", FALSE)),
                 DialogueChoice("drop", "n2", Predicate(<< Lit("f", TRUE) >>), Effect("f", FALSE)),
                 DialogueChoice("void", "n3", NoPredicate, Effect("f", FALSE)) >>,
              Effect("g", FALSE)),
          n2 |-> DialogueNode("n2",
              << DialogueChoice("only", NoneId, Predicate(<< Lit("f", TRUE) >>), Effect("g", FALSE)) >>,
              NoEffect),
          n3 |-> DialogueNode("n3", << >>, Effect("f", TRUE)) ],
        "n0")

GraphDangling ==
    DialogueTree(
        [ n0 |-> DialogueNode("n0",
              << DialogueChoice("bad", "zz", NoPredicate, Effect("f", TRUE)),
                 DialogueChoice("end", NoneId, NoPredicate, NoEffect) >>,
              NoEffect) ],
        "n0")

GraphBadStart ==
    DialogueTree(
        [ n0 |-> DialogueNode("n0",
              << DialogueChoice("end", NoneId, NoPredicate, NoEffect) >>,
              NoEffect) ],
        "nope")

\* The DialogueTree objects, by reference.
Trees ==
    [ElderTree |-> ElderTree, GatekeeperTree |-> GatekeeperTree, GraphA |-> GraphA,
     GraphDangling |-> GraphDangling, GraphBadStart |-> GraphBadStart]

HasNode(tree, node_id) == node_id \in DOMAIN Trees[tree].nodes

\* DialogueTree.node: self.nodes[node_id], a KeyError when node_id is absent.
TreeNode(tree, node_id) == Trees[tree].nodes[node_id]

(***************************************************************************)
(* AsciiTileMap                                                            *)
(***************************************************************************)
tile_size == 24
wall_ch == "x"
floor_ch == "."
void_ch == " "
door_ch == "D"

MAP_LINES ==
    <<
       << "x","x","x","x","x","x","x","x","x","x","x","x","x","x","x","x","x","x","x","x","x","x","x","x","x","x","x","x","x","x","x","x","x","x","x","x","x","x","x","x","x","x","x","x","x","x","x","x" >>,
       << "x",".",".",".",".",".",".",".",".",".",".",".",".",".",".",".",".",".",".",".",".",".",".",".",".",".",".",".",".",".",".",".",".",".",".",".",".",".",".",".",".",".",".",".",".",".",".","x" >>,
       << "x",".",".",".",".","P",".",".",".",".",".",".",".",".",".",".",".",".",".",".",".",".",".",".",".",".",".",".",".",".",".",".",".",".",".",".",".",".",".",".",".",".",".",".",".",".",".","x" >>,
       << "x",".",".",".",".",".",".",".",".",".",".",".",".",".",".",".",".",".",".",".",".",".",".",".",".",".",".",".",".",".",".",".",".",".",".",".",".",".",".",".",".",".",".",".",".",".",".","x" >>,
       << "x",".",".",".",".",".",".",".",".",".",".",".",".",".",".","x","x","x","x","x","x","x",".",".",".",".",".",".",".","x",".",".",".",".",".",".",".",".",".",".",".",".",".",".",".",".",".","x" >>,
       << "x",".",".",".",".",".",".",".",".",".",".",".",".",".",".","x",".",".",".",".",".","x",".",".",".",".",".",".",".","x",".",".",".",".",".",".",".",".",".",".",".",".",".",".",".",".",".","x" >>,
       << "x",".",".",".",".",".",".",".",".",".",".",".",".",".",".","x",".",".",".",".",".","x",".",".",".",".",".",".",".","x",".",".",".",".",".",".",".",".",".",".",".",".",".",".",".",".",".","x" >>,
       << "x",".",".",".",".",".",".",".",".",".",".",".",".",".",".","x","x","x","x","x","x","x",".",".",".",".",".",".",".","x",".",".",".",".",".",".",".",".",".",".",".",".",".",".",".",".",".","x" >>,
       << "x",".",".",".",".",".",".",".",".",".",".",".",".",".",".",".",".",".",".",".",".",".",".",".",".",".",".",".",".","x",".",".",".",".",".",".",".",".","G",".",".",".",".",".",".",".",".","." >>,
       << "x",".",".",".",".",".",".","E",".",".",".",".",".",".",".",".",".",".",".",".",".",".",".",".",".",".",".",".",".","x",".",".",".",".",".",".",".",".",".",".",".",".",".",".",".",".",".","D" >>,
       << "x",".",".",".",".",".",".",".",".",".",".",".",".",".",".",".",".",".",".",".",".",".",".",".",".",".",".",".",".","x",".",".",".",".",".",".",".",".",".",".",".",".",".",".",".",".",".","." >>,
       << "x",".",".",".",".",".",".",".",".",".",".",".",".",".",".",".",".",".",".",".",".",".",".",".",".",".",".",".",".","x",".",".",".",".",".",".",".",".",".",".",".",".",".",".",".",".",".","x" >>,
       << "x","x","x","x","x","x","x","x","x","x","x","x","x","x","x","x","x","x","x","x","x","x","x","x","x","x","x","x","x","x","x","x","x","x","x","x","x","x","x","x","x","x","x","x","x","x","x","x" >>
    >>

(***************************************************************************)
(* A second, small map as an argument of parse_map_and_spawns: the spawn   *)
(* letters in pockets of the top wall, a short row (padded with void), two *)
(* free rows and, as in MAP_LINES, a door with floor below it.             *)
(***************************************************************************)
SMALL_MAP ==
    <<
       << "x","x","x","x","x","x" >>,
       << "x","E","P","x","G" >>,
       << "x",".",".",".",".","D" >>,
       << "x",".",".",".",".","." >>,
       << "x","x","x","x","x","x" >>
    >>

\* A map for the tile queries: rows of unequal length, a code that is no tile
\* of the legend, a door inside the grid and floor on the west edge.
PROBE_MAP ==
    <<
       << "x","x","x","x" >>,
       << "x",".","?","D" >>,
       << ".","P" >>,
       << "x" >>
    >>

\* Lines that hold no tile: an empty line and a line of newlines.
BLANK_MAP == << << >>, << "\n", "\n" >> >>

Max(a, b) == IF a >= b THEN a ELSE b
Min(a, b) == IF a <= b THEN a ELSE b

RECURSIVE MaxLen(_)
MaxLen(rows) == IF rows = << >> THEN 0 ELSE Max(Len(Head(rows)), MaxLen(Tail(rows)))

\* raise ValueError("Map has no lines")
ValueError == "ValueError"

\* AsciiTileMap.__post_init__: a map without rows is refused; every row is
\* left-justified to the widest row.
PadLines(rows) ==
    IF Len(rows) = 0 THEN ValueError
    ELSE [y \in 1..Len(rows) |->
             [x \in 1..MaxLen(rows) |-> IF x <= Len(rows[y]) THEN rows[y][x] ELSE void_ch]]

\* str.rstrip("\n"): the row without its trailing newlines.
RECURSIVE rstrip(_)
rstrip(row) ==
    IF Len(row) > 0 /\ row[Len(row)] = "\n" THEN rstrip(SubSeq(row, 1, Len(row) - 1)) ELSE row

\* line.strip("\n") != "": the row holds a character that is no newline.
NotBlank(row) == \E x \in 1..Len(row) : row[x] # "\n"

\* parse_map_and_spawns, first statement: the rows that are not blank, each
\* without its trailing newlines.
RECURSIVE StrippedLines(_)
StrippedLines(raw) ==
    IF Len(raw) = 0 THEN << >>
    ELSE (IF NotBlank(Head(raw)) THEN << rstrip(Head(raw)) >> ELSE << >>) \o StrippedLines(Tail(raw))

\* parse_map_and_spawns: the spawn letters become floor.
SpawnLetter == [P |-> "player", E |-> "elder", G |-> "gatekeeper"]

NormalizedLines(raw) ==
    LET lines == StrippedLines(raw)
    IN  [y \in 1..Len(lines) |->
            [x \in 1..Len(lines[y]) |->
                IF lines[y][x] \in DOMAIN SpawnLetter THEN floor_ch ELSE lines[y][x]]]

\* spawns[tag]: the cells (x, y), 0-based, of the stripped lines that hold the
\* letter; the last in reading order is the one kept.
SpawnCells(raw, letter) ==
    LET lines == StrippedLines(raw)
    IN  {c \in (0..(MaxLen(lines) - 1)) \X (0..(Len(lines) - 1)) :
            c[1] + 1 <= Len(lines[c[2] + 1]) /\ lines[c[2] + 1][c[1] + 1] = letter}

LastCell(cells) ==
    CHOOSE c \in cells : \A d \in cells : d[2] < c[2] \/ (d[2] = c[2] /\ d[1] <= c[1])

\* parse_map_and_spawns: the lines of the AsciiTileMap it returns.
ParsedLines(raw) == PadLines(NormalizedLines(raw))

\* The AsciiTileMap objects, by reference.
RawMaps == [shipped |-> MAP_LINES, small |-> SMALL_MAP, probe |-> PROBE_MAP, blank |-> BLANK_MAP]
Maps == [shipped |-> ParsedLines(MAP_LINES), small |-> ParsedLines(SMALL_MAP),
         probe |-> ParsedLines(PROBE_MAP), blank |-> ParsedLines(BLANK_MAP)]

map_width(lines) == Len(lines[1])
map_height(lines) == Len(lines)

\* A variant of tile_at in which the world outside the grid is void.
tile_at_open_world(m, tx, ty) ==
    IF tx < 0 \/ ty < 0 \/ tx >= map_width(Maps[m]) \/ ty >= map_height(Maps[m])
    THEN void_ch
    ELSE Maps[m][ty + 1][tx + 1]

tile_at(m, tx, ty) ==
    IF tx < 0 \/ ty < 0 \/ tx >= map_width(Maps[m]) \/ ty >= map_height(Maps[m])
    THEN wall_ch
    ELSE Maps[m][ty + 1][tx + 1]

\* A variant of is_blocking_tile in which a door blocks whatever the flags are.
is_blocking_tile_door_shut(ch, gs) ==
    IF ch = wall_ch THEN TRUE
    ELSE IF ch = door_ch THEN TRUE
    ELSE FALSE

is_blocking_tile(ch, gs) ==
    IF ch = wall_ch THEN TRUE
    ELSE IF ch = door_ch /\ ~has(gs, "gate_open") THEN TRUE
    ELSE FALSE

\* pygame.Rect as [x, y, w, h]; right = x + w, bottom = y + h.
Rect(x, y, w, h) == [x |-> x, y |-> y, w |-> w, h |-> h]

\* A variant of rect_collides whose tile range reaches the tiles of right and bottom.
rect_collides_inclusive(m, r, gs) ==
    LET tx0 == r.x \div tile_size
        ty0 == r.y \div tile_size
        tx1 == (r.x + r.w) \div tile_size
        ty1 == (r.y + r.h) \div tile_size
    IN  \E ty \in ty0..ty1 : \E tx \in tx0..tx1 : is_blocking_tile(tile_at(m, tx, ty), gs)

rect_collides(m, r, gs) ==
    LET tx0 == r.x \div tile_size
        ty0 == r.y \div tile_size
        tx1 == (r.x + r.w - 1) \div tile_size
        ty1 == (r.y + r.h - 1) \div tile_size
    IN  \E ty \in ty0..ty1 : \E tx \in tx0..tx1 : is_blocking_tile(tile_at(m, tx, ty), gs)

\* pygame.Rect.colliderect: the two rectangles overlap in a region of positive area.
colliderect(a, b) ==
    /\ a.x < b.x + b.w
    /\ a.y < b.y + b.h
    /\ a.x + a.w > b.x
    /\ a.y + a.h > b.y

(***************************************************************************)
(* Floats.  A coordinate of a pygame.Vector2 is a Python float (binary64): *)
(* it is kept exactly, as << i, f1, f2 >> for i + f1 / 2^30 + f2 / 2^60    *)
(* with i an integer and 0 <= f1, f2 < 2^30, and every sum is rounded to   *)
(* 53 significant bits, ties to even, as the addition of floats rounds it. *)
(* A coordinate of a pygame.Rect is an int, in pixels.                     *)
(***************************************************************************)
P22 == 2^22
P29 == 2^29
P30 == 2^30

\* float(n) of an int n, and n / 2 of an int n.
Float(n) == << n, 0, 0 >>
HalfOf(n) == << n \div 2, (n % 2) * P29, 0 >>

\* The coordinate of i + f1 / 2^30 + f2 / 2^60 for any integers f1 and f2.
Carry(i, f1, f2) ==
    LET g1 == f1 + (f2 \div P30)
    IN  << i + (g1 \div P30), g1 % P30, f2 % P30 >>

fneg(v) == Carry(-v[1], -v[2], -v[3])

\* The number of bits of n, for 0 <= n < 2^31.
Pow2 == [k \in 0..30 |-> 2^k]
BitLen(n) == Cardinality({k \in 0..30 : Pow2[k] <= n})

\* v >= 0 with the bits of f2 below p = 2^u dropped (0 < u < 30), and with those
\* of f1 below p = 2^(u - 30) and all of f2 dropped (u >= 30): to the nearest, and
\* to the even one of two that are as near.
RoundLow(v, p) ==
    LET r == v[3] % p
        odd == (v[3] \div p) % 2 = 1
        up == 2 * r > p \/ (2 * r = p /\ odd)
    IN  Carry(v[1], v[2], v[3] - r + (IF up THEN p ELSE 0))

RoundHigh(v, p) ==
    LET r == v[2] % p
        odd == (v[2] \div p) % 2 = 1
        above == IF p = 1 THEN v[3] > P29 ELSE 2 * r > p \/ (2 * r = p /\ v[3] > 0)
        tie == IF p = 1 THEN v[3] = P29 ELSE 2 * r = p /\ v[3] = 0
        up == above \/ (tie /\ odd)
    IN  Carry(v[1], v[2] - r + (IF up THEN p ELSE 0), 0)

\* The number of bits of the fraction of v > 0 below the last of the 53
\* significant bits of v; none when it is 0 or less.
Excess(v) ==
    IF v[1] > 0 THEN BitLen(v[1]) + 7
    ELSE IF v[2] > 0 THEN BitLen(v[2]) - 23
    ELSE BitLen(v[3]) - 53

RoundAt(v, u) ==
    IF u <= 0 THEN v
    ELSE IF u < 30 THEN RoundLow(v, 2^u)
    ELSE RoundHigh(v, 2^(u - 30))

\* A value v >= 0 rounded to 53 significant bits, ties to even.
Round53(v) == RoundAt(v, Excess(v))

\* The float nearest to the exact value s.  A value below 2^22 that is a whole
\* number of 2^-30 has at most 53 significant bits and is a float.
Rounded(s) ==
    IF s[3] = 0 /\ s[1] < P22 /\ s[1] >= -P22 THEN s
    ELSE IF s[1] < 0 THEN fneg(Round53(fneg(s)))
    ELSE Round53(s)

\* a + b of two floats.
fadd(a, b) == Rounded(Carry(a[1] + b[1], a[2] + b[2], a[3] + b[3]))

\* int(v) of a float: rounded towards zero.
int(v) == IF v[1] >= 0 \/ (v[2] = 0 /\ v[3] = 0) THEN v[1] ELSE v[1] + 1

(***************************************************************************)
(* Products and quotients of floats, computed on whole numbers of 8 limbs  *)
(* of 14 bits, least significant first; a float is m * 2^e with m such a   *)
(* number of at most 54 bits.                                              *)
(***************************************************************************)
Limb == 2^14
Limbs == 1..8

\* The number with the limbs L(1), ..., L(8).
Big(L(_)) == << L(1), L(2), L(3), L(4), L(5), L(6), L(7), L(8) >>

BigOf(n) == << n % Limb, (n \div Limb) % Limb, n \div (Limb * Limb), 0, 0, 0, 0, 0 >>

BigLimb(a, j) == IF j \in Limbs THEN a[j] ELSE 0

\* The number whose limb j is cols[j] plus the carry out of limb j - 1.
Carried(cols) ==
    LET c1 == cols[1]
        c2 == cols[2] + (c1 \div Limb)
        c3 == cols[3] + (c2 \div Limb)
        c4 == cols[4] + (c3 \div Limb)
        c5 == cols[5] + (c4 \div Limb)
        c6 == cols[6] + (c5 \div Limb)
        c7 == cols[7] + (c6 \div Limb)
        c8 == cols[8] + (c7 \div Limb)
    IN  << c1 % Limb, c2 % Limb, c3 % Limb, c4 % Limb, c5 % Limb, c6 % Limb, c7 % Limb, c8 % Limb >>

\* a * b, for a of at most 4 limbs.
BigMul(a, b) ==
    LET col(j) == a[1] * BigLimb(b, j) + a[2] * BigLimb(b, j - 1)
                  + a[3] * BigLimb(b, j - 2) + a[4] * BigLimb(b, j - 3)
    IN  Carried(Big(col))

\* Long division by d < 2^16: the remainders left after the limbs j.. of a, j = 1..9.
Remainders(a, d) ==
    LET r8 == a[8] % d
        r7 == (r8 * Limb + a[7]) % d
        r6 == (r7 * Limb + a[6]) % d
        r5 == (r6 * Limb + a[5]) % d
        r4 == (r5 * Limb + a[4]) % d
        r3 == (r4 * Limb + a[3]) % d
        r2 == (r3 * Limb + a[2]) % d
        r1 == (r2 * Limb + a[1]) % d
    IN  << r1, r2, r3, r4, r5, r6, r7, r8, 0 >>

\* The quotient of a by d, given the remainders r.
Quotient(a, d, r) ==
    LET q(j) == (r[j + 1] * Limb + a[j]) \div d
    IN  Big(q)

BigBitLen(a) ==
    IF \A j \in Limbs : a[j] = 0 THEN 0
    ELSE LET top == CHOOSE j \in Limbs : a[j] # 0 /\ \A i \in Limbs : i > j => a[i] = 0
         IN  14 * (top - 1) + BitLen(a[top])

\* Bit k of a (bit 0 the lowest), whether a bit below bit k is set, and the shifts.
BigBit(a, k) == (BigLimb(a, (k \div 14) + 1) \div 2^(k % 14)) % 2

BigLow(a, k) ==
    \/ \E j \in Limbs : j <= k \div 14 /\ a[j] # 0
    \/ (BigLimb(a, (k \div 14) + 1) % 2^(k % 14)) # 0

BigShr(a, k) ==
    LET q == k \div 14
        b == k % 14
        L(j) == (BigLimb(a, j + q) \div 2^b) + ((BigLimb(a, j + q + 1) % 2^b) * 2^(14 - b))
    IN  Big(L)

BigShl(a, k) ==
    LET q == k \div 14
        b == k % 14
        L(j) == ((BigLimb(a, j - q) * 2^b) % Limb) + (BigLimb(a, j - q - 1) \div 2^(14 - b))
    IN  Big(L)

\* The float m * 2^e, or the next one up when the value it stands for is nearer to
\* that one (half: by half a unit of m or more; more: by more than half), or as
\* near and m is odd.
Nearest(m, e, half, more) ==
    [m |-> IF half /\ (more \/ (m[1] % 2) = 1) THEN Carried([m EXCEPT ![1] = m[1] + 1]) ELSE m,
     e |-> e]

\* The float nearest to a * 2^e0 (or to a value just above it, when sticky), a
\* having d bits more than 53.
RoundBits(a, sticky, e0, d) ==
    IF d <= 0 THEN [m |-> a, e |-> e0]
    ELSE Nearest(BigShr(a, d), e0 + d, BigBit(a, d - 1) = 1, sticky \/ BigLow(a, d - 1))

RoundBig(a, sticky, e0) == RoundBits(a, sticky, e0, BigBitLen(a) - 53)

\* a / d, for a the numerator times 2^70 and r the remainders of the division.
Divided(a, d, r) == RoundBig(Quotient(a, d, r), r[1] # 0, -70)

\* n / d of an int n >= 0 by a float d that is a whole number below 2^16.
fdiv(n, d) == Divided(BigShl(BigOf(n), 70), d, Remainders(BigShl(BigOf(n), 70), d))

\* a * b of two floats m * 2^e.
fmul(a, b) == RoundBig(BigMul(a.m, b.m), FALSE, a.e + b.e)

\* The coordinate of the whole number n of 2^-60.
Packed(n) ==
    << (n[5] \div 16) + n[6] * 2^10 + n[7] * 2^24,
       (n[3] \div 4) + n[4] * 2^12 + (n[5] % 16) * 2^26,
       n[1] + n[2] * Limb + (n[3] % 4) * 2^28 >>

\* The coordinate of a float m * 2^e >= 0.
Coord(a) == Packed(IF a.e + 60 >= 0 THEN BigShl(a.m, a.e + 60) ELSE BigShr(a.m, -(a.e + 60)))

(***************************************************************************)
(* Entities.  A sprite's surface is as wide as its longest line and as     *)
(* high as its lines, in the character cells of the font.                  *)
(***************************************************************************)
glyph_w == 10
glyph_h == 20

collider_w == 18
collider_h == 12

Pos(x, y) == [x |-> x, y |-> y]

\* Lines and longest line of frame 0 of player_anim, elder_anim, gate_anim.
Player ==
    [name |-> "You", w |-> 6 * glyph_w, h |-> 4 * glyph_h, solid |-> TRUE, speed_px_s |-> 150]

Npc ==
    [elder |-> [name |-> "Elder Kora", w |-> 7 * glyph_w, h |-> 4 * glyph_h, solid |-> TRUE,
                talk_tree |-> "elder", interaction_radius |-> 60, fallback |-> << 8, 4 >>],
     gatekeeper |-> [name |-> "Gatekeeper Bram", w |-> 6 * glyph_w, h |-> 4 * glyph_h, solid |-> TRUE,
                talk_tree |-> "gatekeeper", interaction_radius |-> 70, fallback |-> << 18, 6 >>]]

\* npcs = [elder, gatekeeper]
npcs == << "elder", "gatekeeper" >>

\* main.pos_from_tile
pos_from_tile(m, letter, w, h, fallback) ==
    LET cells == SpawnCells(RawMaps[m], letter)
        t == IF cells = {} THEN fallback ELSE LastCell(cells)
    IN  Pos(fadd(Float(t[1] * tile_size), HalfOf(tile_size - w)),
            fadd(Float(t[2] * tile_size), HalfOf(tile_size - h)))

\* Entity.collider_rect of an entity at pos with a surface of w x h.
collider_rect(pos, w, h) ==
    LET cw == Min(collider_w, w)
        ch == Min(collider_h, h)
        x == fadd(pos.x, HalfOf(w - cw))
        y == fadd(fadd(pos.y, Float(h)), Float(-ch))
    IN  Rect(int(x), int(y), cw, ch)

Center(r) == Pos(r.x + r.w \div 2, r.y + r.h \div 2)

\* _circle_near on the two centers: distance_to(b) <= radius.
circle_near(a, b, radius) ==
    (a.x - b.x) * (a.x - b.x) + (a.y - b.y) * (a.y - b.y) <= radius * radius

\* main.collides for the rectangle of the entity `ignore` ("player" or an npc).
collides(m, r, ignore, gs, ppos, npos) ==
    \/ rect_collides(m, r, gs)
    \/ \E i \in 1..Len(npcs) :
          /\ npcs[i] # ignore
          /\ Npc[npcs[i]].solid
          /\ colliderect(r, collider_rect(npos[npcs[i]], Npc[npcs[i]].w, Npc[npcs[i]].h))
    \/ /\ ignore # "player"
       /\ colliderect(r, collider_rect(ppos, Player.w, Player.h))

\* Whether the player's collider, with the player at p, collides.
PlayerCollides(m, p, gs, npos) ==
    collides(m, collider_rect(p, Player.w, Player.h), "player", gs, p, npos)

\* A variant of try_move that rejects the whole delta when the destination collides.
try_move_all_or_nothing(m, pos, delta, gs, npos) ==
    IF delta.x = Float(0) /\ delta.y = Float(0) THEN pos
    ELSE IF PlayerCollides(m, Pos(fadd(pos.x, delta.x), fadd(pos.y, delta.y)), gs, npos) THEN pos
    ELSE Pos(fadd(pos.x, delta.x), fadd(pos.y, delta.y))

\* `entity.pos.x += delta.x` and the two lines after it: the new x, or the old one
\* when the collider there collides.
StepX(m, pos, x, gs, npos) == IF PlayerCollides(m, Pos(x, pos.y), gs, npos) THEN pos.x ELSE x

\* `entity.pos.y += delta.y` and the two lines after it, with x1 the x kept.
StepY(m, pos, x1, y, gs, npos) ==
    Pos(x1, IF PlayerCollides(m, Pos(x1, y), gs, npos) THEN pos.y ELSE y)

\* A variant of StepY that tests the collider of before the step.
StepY_stale_rect(m, pos, x1, y, gs, npos) ==
    Pos(x1, IF PlayerCollides(m, Pos(x1, pos.y), gs, npos) THEN pos.y ELSE y)

\* A variant of try_move that tests the Y step on the collider of before the step.
try_move_stale_rect(m, pos, delta, gs, npos) ==
    IF delta.x = Float(0) /\ delta.y = Float(0) THEN pos
    ELSE StepY_stale_rect(m, pos, StepX(m, pos, fadd(pos.x, delta.x), gs, npos), fadd(pos.y, delta.y),
                          gs, npos)

\* main.try_move for the player; the result is the new player.pos.
try_move(m, pos, delta, gs, npos) ==
    IF delta.x = Float(0) /\ delta.y = Float(0) THEN pos
    ELSE StepY(m, pos, StepX(m, pos, fadd(pos.x, delta.x), gs, npos), fadd(pos.y, delta.y), gs, npos)

\* main.nearest_talkable: the first npc of npcs within its own radius, or None.
RECURSIVE FirstTalkable(_, _, _)
FirstTalkable(i, ppos, npos) ==
    IF i > Len(npcs) THEN NoneId
    ELSE IF /\ Npc[npcs[i]].talk_tree # NoneId
            /\ circle_near(Center(collider_rect(ppos, Player.w, Player.h)),
                           Center(collider_rect(npos[npcs[i]], Npc[npcs[i]].w, Npc[npcs[i]].h)),
                           Npc[npcs[i]].interaction_radius)
         THEN npcs[i]
         ELSE FirstTalkable(i + 1, ppos, npos)

\* A variant of nearest_talkable that searches for the closest npc within its radius.
nearest_talkable_closest(ppos, npos) ==
    LET pc0 == Center(collider_rect(ppos, Player.w, Player.h))
        c(n) == Center(collider_rect(npos[n], Npc[n].w, Npc[n].h))
        d2(n) == (pc0.x - c(n).x) * (pc0.x - c(n).x) + (pc0.y - c(n).y) * (pc0.y - c(n).y)
        near == {i \in 1..Len(npcs) :
                    Npc[npcs[i]].talk_tree # NoneId /\ circle_near(pc0, c(npcs[i]), Npc[npcs[i]].interaction_radius)}
    IN  IF near = {} THEN NoneId
        ELSE npcs[CHOOSE i \in near : \A j \in near : d2(npcs[i]) < d2(npcs[j]) \/ (d2(npcs[i]) = d2(npcs[j]) /\ i <= j)]

nearest_talkable(ppos, npos) == FirstTalkable(1, ppos, npos)

\* clock.tick(60): the frames a second the loop is held to, and the whole
\* milliseconds of a frame at that rate.
frame_rate == 60
TickMillis == 1000 \div frame_rate

MoveKeys == {"left", "right", "up", "down"}

\* The frame's move vector before it is scaled: -1, 0 or 1 on each axis.
MoveVector(held) ==
    << (IF "right" \in held THEN 1 ELSE 0) - (IF "left" \in held THEN 1 ELSE 0),
       (IF "down" \in held THEN 1 ELSE 0) - (IF "up" \in held THEN 1 ELSE 0) >>

\* A component of Vector2(+-1, +-1).normalize(): the float 1 / sqrt(2.0), which is
\* 6369051672525772 * 2^-53 (0x1.6a09e667f3bccp-1), in limbs.
UnitDiagonal == [m |-> << 15308, 6652, 2534, 1448, 0, 0, 0, 0 >>, e |-> -53]

\* The length of a component of move.normalize() * speed_px_s * dt_s for a frame of
\* dt_ms milliseconds (dt_s = dt_ms / 1000.0), the products taken from the left.
Scaled(diagonal, dt_ms) ==
    Coord(fmul(IF diagonal THEN fmul(UnitDiagonal, [m |-> BigOf(Player.speed_px_s), e |-> 0])
               ELSE [m |-> BigOf(Player.speed_px_s), e |-> 0],
               fdiv(dt_ms, 1000)))

\* The same length, looked up for the frame times of the specifications.
FrameTimes == {TickMillis, FrameMillis}
StepLengths == [dt_ms \in FrameTimes |-> [diagonal \in BOOLEAN |-> Scaled(diagonal, dt_ms)]]

StepLength(diagonal, dt_ms) ==
    IF dt_ms \in FrameTimes THEN StepLengths[dt_ms][diagonal] ELSE Scaled(diagonal, dt_ms)

\* The component of length len on an axis where the move vector has c.
Along(c, len) == IF c = 0 THEN Float(0) ELSE IF c > 0 THEN len ELSE fneg(len)

\* The vector of the direction move with components of length len.
Scale(move, len) == Pos(Along(move[1], len), Along(move[2], len))

\* The frame's move vector, move.normalize() * speed_px_s * dt_s.
MoveDelta(held, dt_ms) ==
    Scale(MoveVector(held), StepLength(MoveVector(held)[1] # 0 /\ MoveVector(held)[2] # 0, dt_ms))

(***************************************************************************)
(* Dialogue operations of main()                                           *)
(***************************************************************************)
\* A variant of enabled_choices that does not filter.
enabled_choices_unfiltered(tree, node_id, gs) == TreeNode(tree, node_id).choices

\* main.enabled_choices for a dialogue at node_id of tree.
enabled_choices(tree, node_id, gs) ==
    LET Enabled(c) == c.enabled_if.none \/ CallPredicate(c.enabled_if, gs)
    IN  SelectSeq(TreeNode(tree, node_id).choices, Enabled)

\* The outcome of a dialogue operation: the flags, active_dialogue and whether it raised.
Outcome(gs, ad, raised) == [flags |-> gs, active_dialogue |-> ad, pc |-> raised]

\* A variant of open_dialogue that does not run the start node's on_enter.
open_dialogue_skips_on_enter(gs, npc_name, tree) ==
    LET d == ActiveDialogue(npc_name, tree, Trees[tree].start_id)
    IN  IF ~HasNode(tree, d.node_id)
        THEN Outcome(gs, << d >>, "KeyError")
        ELSE Outcome(gs, << [d EXCEPT !.selected_idx = 0] >>, "loop")

\* main.open_dialogue
open_dialogue(gs, npc_name, tree) ==
    LET d == ActiveDialogue(npc_name, tree, Trees[tree].start_id)
    IN  IF ~HasNode(tree, d.node_id)
        THEN Outcome(gs, << d >>, "KeyError")
        ELSE Outcome(ApplyOptional(TreeNode(tree, d.node_id).on_enter, gs),
                     << [d EXCEPT !.selected_idx = 0] >>, "loop")

\* A variant of close_dialogue that also starts the flags afresh.
close_dialogue_resets_flags(gs) == Outcome(EmptyFlags, None, "loop")

\* main.close_dialogue
close_dialogue(gs) == Outcome(gs, None, "loop")

\* A variant of advance_choice that leaves selected_idx as it was.
advance_choice_keeps_idx(gs, d, choice) ==
    LET gs1 == ApplyOptional(choice.effect, gs)
        d1 == [d EXCEPT !.node_id = choice.next_id]
    IN  IF choice.next_id = NoneId
        THEN Outcome(gs1, None, "loop")
        ELSE IF ~HasNode(d.tree, choice.next_id)
        THEN Outcome(gs1, << d1 >>, "KeyError")
        ELSE Outcome(ApplyOptional(TreeNode(d.tree, choice.next_id).on_enter, gs1), << d1 >>, "loop")

\* A variant of advance_choice that does not run the choice's effect.
advance_choice_skips_effect(gs, d, choice) ==
    LET d1 == [d EXCEPT !.node_id = choice.next_id]
    IN  IF choice.next_id = NoneId
        THEN Outcome(gs, None, "loop")
        ELSE IF ~HasNode(d.tree, choice.next_id)
        THEN Outcome(gs, << d1 >>, "KeyError")
        ELSE Outcome(ApplyOptional(TreeNode(d.tree, choice.next_id).on_enter, gs),
                     << [d1 EXCEPT !.selected_idx = 0] >>, "loop")

\* A variant of advance_choice that takes the choice's text for the target id.
advance_choice_by_text(gs, d, choice) ==
    LET gs1 == ApplyOptional(choice.effect, gs)
        d1 == [d EXCEPT !.node_id = choice.text]
    IN  IF choice.next_id = NoneId
        THEN Outcome(gs1, None, "loop")
        ELSE IF ~HasNode(d.tree, choice.text)
        THEN Outcome(gs1, << d1 >>, "KeyError")
        ELSE Outcome(ApplyOptional(TreeNode(d.tree, choice.text).on_enter, gs1),
                     << [d1 EXCEPT !.selected_idx = 0] >>, "loop")

\* A variant of advance_choice that does not run the target node's on_enter.
advance_choice_skips_on_enter(gs, d, choice) ==
    LET gs1 == ApplyOptional(choice.effect, gs)
        d1 == [d EXCEPT !.node_id = choice.next_id]
    IN  IF choice.next_id = NoneId
        THEN Outcome(gs1, None, "loop")
        ELSE IF ~HasNode(d.tree, choice.next_id)
        THEN Outcome(gs1, << d1 >>, "KeyError")
        ELSE Outcome(gs1, << [d1 EXCEPT !.selected_idx = 0] >>, "loop")

\* main.advance_choice
advance_choice(gs, d, choice) ==
    LET gs1 == ApplyOptional(choice.effect, gs)
        d1 == [d EXCEPT !.node_id = choice.next_id]
    IN  IF choice.next_id = NoneId
        THEN Outcome(gs1, None, "loop")
        ELSE IF ~HasNode(d.tree, choice.next_id)
        THEN Outcome(gs1, << d1 >>, "KeyError")
        ELSE Outcome(ApplyOptional(TreeNode(d.tree, choice.next_id).on_enter, gs1),
                     << [d1 EXCEPT !.selected_idx = 0] >>, "loop")

\* A variant of navigate that stops at the first and the last choice.
navigate_clamps(idx, nav_delta, n_choices) ==
    IF n_choices > 0 THEN Max(0, Min(n_choices - 1, idx + nav_delta)) ELSE 0

\* The dialogue navigation of a frame: selected_idx after nav_delta and the wrap.
navigate(idx, nav_delta, n_choices) ==
    LET moved == IF nav_delta # 0 THEN idx + nav_delta ELSE idx
    IN  IF n_choices > 0 THEN moved % n_choices ELSE 0

\* A variant of dispatch in which a confirm on an empty list closes the dialogue.
dispatch_confirm_closes(inp, n_choices) ==
    IF inp.choose_number # NoNumber /\ 0 <= inp.choose_number /\ inp.choose_number < n_choices
    THEN "hotkey"
    ELSE IF inp.interact_pressed /\ n_choices > 0 THEN "confirm"
    ELSE IF inp.interact_pressed \/ inp.close_pressed THEN "cancel"
    ELSE "none"

\* A variant of dispatch in which a frame without a hotkey or a confirm closes
\* the dialogue.
dispatch_idle_closes(inp, n_choices) ==
    IF inp.choose_number # NoNumber /\ 0 <= inp.choose_number /\ inp.choose_number < n_choices
    THEN "hotkey"
    ELSE IF inp.interact_pressed /\ n_choices > 0 THEN "confirm"
    ELSE "cancel"

\* A variant of dispatch that tests the close press first.
dispatch_cancel_first(inp, n_choices) ==
    IF inp.close_pressed THEN "cancel"
    ELSE IF inp.choose_number # NoNumber /\ 0 <= inp.choose_number /\ inp.choose_number < n_choices
    THEN "hotkey"
    ELSE IF inp.interact_pressed /\ n_choices > 0 THEN "confirm"
    ELSE "none"

\* Which branch of the hotkey / confirm / cancel chain a frame's input takes.
dispatch(inp, n_choices) ==
    IF inp.choose_number # NoNumber /\ 0 <= inp.choose_number /\ inp.choose_number < n_choices
    THEN "hotkey"
    ELSE IF inp.interact_pressed /\ n_choices > 0 THEN "confirm"
    ELSE IF inp.close_pressed THEN "cancel"
    ELSE "none"

\* The choice lines of the dialogue panel (the first six enabled choices).
render_choices(ad, gs) ==
    IF ad = None THEN << >>
    ELSE LET choices == enabled_choices(ad[1].tree, ad[1].node_id, gs)
         IN  [i \in 1..Min(6, Len(choices)) |->
                 [ordinal |-> i, text |-> choices[i].text, is_sel |-> (i - 1 = ad[1].selected_idx)]]

(***************************************************************************)
(* Inputs of a frame                                                       *)
(***************************************************************************)
DialogueInputs ==
    [interact_pressed : BOOLEAN, close_pressed : BOOLEAN, nav_delta : {-1, 0, 1},
     choose_number : {NoNumber} \cup (0..(NumberKeys - 1))]

NoChoice == << >>
\* What a frame did: the branch taken, the text of the choice applied, and the
\* interact and close presses of the frame.
Did(via, choice, pressed) ==
    [via |-> via, choice |-> IF choice = << >> THEN "" ELSE choice[1].text, pressed |-> pressed]

Pressed(inp) ==
    (IF inp.interact_pressed THEN {"interact"} ELSE {}) \cup
    (IF inp.close_pressed THEN {"close"} ELSE {})

(***************************************************************************)
(* Actions                                                                 *)
(***************************************************************************)
Init ==
    /\ pc = "setup"
    /\ dialogues = [elder |-> "", gatekeeper |-> ""]
    /\ flags = EmptyFlags
    /\ active_dialogue = None
    /\ tile_map = ""
    /\ npc_pos = [n \in DOMAIN Npc |-> Pos(Float(0), Float(0))]
    /\ player_pos = Pos(Float(0), Float(0))
    /\ drawn = << >>
    /\ did = Did("none", NoChoice, {})
    /\ chain = 0
    /\ call = None
    /\ diagonals = 0

\* main() up to the loop, with the map lines and the dialogue trees it is given;
\* the ValueError of a map without lines ends main() before anything is built.
Setup(m, trees) ==
    /\ pc = "setup"
    /\ IF Len(NormalizedLines(RawMaps[m])) = 0
       THEN /\ pc' = ValueError
            /\ UNCHANGED << dialogues, tile_map, player_pos, npc_pos >>
       ELSE /\ pc' = "loop"
            /\ dialogues' = trees
            /\ tile_map' = m
            /\ player_pos' = pos_from_tile(m, "P", Player.w, Player.h, << 2, 2 >>)
            /\ npc_pos' = [n \in DOMAIN Npc |->
                              pos_from_tile(m, IF n = "elder" THEN "E" ELSE "G",
                                            Npc[n].w, Npc[n].h, Npc[n].fallback)]
    /\ UNCHANGED << flags, active_dialogue, drawn, did, chain, call, diagonals >>

\* The frame calls try_move: `if move.length_squared() > 0`.
Walks(held) == MoveVector(held) # << 0, 0 >>

\* Two perpendicular keys are held.
Diagonal(held) == MoveVector(held)[1] # 0 /\ MoveVector(held)[2] # 0

\* One frame of dt_ms milliseconds with no dialogue open and the events inp:
\* movement, then interact.
ExploreFrame(held, dt_ms, inp) ==
    /\ pc = "loop"
    /\ active_dialogue = None
    /\ Diagonal(held) => diagonals < MaxDiagonal
    /\ diagonals' = IF Diagonal(held) THEN diagonals + 1 ELSE diagonals
    /\ \E moved \in {IF Walks(held)
                      THEN try_move(tile_map, player_pos, MoveDelta(held, dt_ms), flags, npc_pos)
                      ELSE player_pos} :
       \E npc \in {IF inp.interact_pressed THEN nearest_talkable(moved, npc_pos) ELSE NoneId} :
           LET out == IF npc # NoneId
                      THEN open_dialogue(flags, Npc[npc].name, dialogues[Npc[npc].talk_tree])
                      ELSE Outcome(flags, active_dialogue, "loop")
           IN  /\ player_pos' = moved
               /\ flags' = out.flags
               /\ active_dialogue' = out.active_dialogue
               /\ pc' = out.pc
               /\ drawn' = IF out.pc = "loop" THEN render_choices(out.active_dialogue, out.flags)
                           ELSE drawn
               /\ did' = Did(IF npc # NoneId THEN "open" ELSE "none", NoChoice, Pressed(inp))
    /\ UNCHANGED << dialogues, tile_map, npc_pos, chain >>

\* The dialogue branch of a frame on the dialogue d0: navigation, then hotkey /
\* confirm / cancel.  The result is the outcome with the branch taken and the choice
\* applied.
dialogue_frame(gs, d0, inp) ==
    LET choices == enabled_choices(d0.tree, d0.node_id, gs)
        d == [d0 EXCEPT !.selected_idx = navigate(d0.selected_idx, inp.nav_delta, Len(choices))]
        via == dispatch(inp, Len(choices))
        choice == IF via = "hotkey" THEN << choices[inp.choose_number + 1] >>
                  ELSE IF via = "confirm" THEN << choices[d.selected_idx + 1] >>
                  ELSE NoChoice
        out == IF choice # NoChoice THEN advance_choice(gs, d, choice[1])
               ELSE IF via = "cancel" THEN close_dialogue(gs)
               ELSE Outcome(gs, << d >>, "loop")
    IN  [flags |-> out.flags, active_dialogue |-> out.active_dialogue, pc |-> out.pc,
         via |-> via, choice |-> choice]

\* One frame with a dialogue open, and the panel drawn at its end.
DialogueFrame(inp) ==
    /\ pc = "loop"
    /\ active_dialogue # None
    /\ LET out == dialogue_frame(flags, active_dialogue[1], inp)
       IN  /\ flags' = out.flags
           /\ active_dialogue' = out.active_dialogue
           /\ pc' = out.pc
           /\ drawn' = IF out.pc = "loop" THEN render_choices(out.active_dialogue, out.flags) ELSE drawn
           /\ did' = Did(out.via, out.choice, Pressed(inp))
    /\ UNCHANGED << dialogues, tile_map, npc_pos, player_pos, chain, call, diagonals >>

\* The events of a frame with no dialogue open: the interact and close keys (the
\* navigation and number keys are left alone).
ExploreInputs == {inp \in DialogueInputs : inp.nav_delta = 0 /\ inp.choose_number = NoNumber}

Explore == \E held \in SUBSET MoveKeys : \E inp \in ExploreInputs :
               ExploreFrame(held, FrameMillis, inp) /\ UNCHANGED call

Converse == \E inp \in DialogueInputs : DialogueFrame(inp)

\* The loop over the small map, with the shipped graphs or with GraphA.
ValidTrees ==
    { build_dialogues, [elder |-> "GraphA", gatekeeper |-> "GraphA"] }

SetupValid == \E trees \in ValidTrees : Setup("small", trees)

Next == SetupValid \/ Explore \/ Converse

Spec == Init /\ [][Next]_vars

\* The game as shipped: the shipped map and graphs.
SetupShipped == Setup("shipped", build_dialogues)

NextShipped == SetupShipped \/ Explore \/ Converse

SpecShipped == Init /\ [][NextShipped]_vars

\* The same loop with graphs whose references do not resolve.
AnyTrees ==
    ValidTrees \cup { [elder |-> "GraphBadStart", gatekeeper |-> "GraphDangling"] }

SetupAny == \E trees \in AnyTrees : Setup("small", trees)

NextAny == SetupAny \/ Explore \/ Converse

SpecAny == Init /\ [][NextAny]_vars

(***************************************************************************)
(* Chains of choices: a session is opened on a graph and enabled choices   *)
(* with a present target are followed one after the other.                 *)
(***************************************************************************)
ChainTrees == {"ElderTree", "GatekeeperTree", "GraphA"}

ChainFlags ==
    { EmptyFlags,
      set(EmptyFlags, "got_coin", TRUE),
      set(set(EmptyFlags, "got_coin", TRUE), "gate_open", TRUE) }

StartChain(tree, gs) ==
    LET out == open_dialogue(gs, tree, tree)
    IN  /\ pc = "setup"
        /\ pc' = IF out.pc = "loop" THEN "chain" ELSE out.pc
        /\ flags' = out.flags
        /\ active_dialogue' = out.active_dialogue
        /\ chain' = 0
        /\ UNCHANGED << dialogues, tile_map, npc_pos, player_pos, drawn, did, call, diagonals >>

FollowChoice(i) ==
    LET d == active_dialogue[1]
        choices == enabled_choices(d.tree, d.node_id, flags)
        out == advance_choice(flags, d, choices[i])
    IN  /\ pc = "chain"
        /\ i \in 1..Len(choices)
        /\ choices[i].next_id # NoneId
        /\ pc' = IF out.pc = "loop" THEN "chain" ELSE out.pc
        /\ flags' = out.flags
        /\ active_dialogue' = out.active_dialogue
        /\ chain' = Min(chain + 1, MaxChain)
        /\ UNCHANGED << dialogues, tile_map, npc_pos, player_pos, drawn, did, call, diagonals >>

OpenChain == \E tree \in ChainTrees : \E gs \in ChainFlags : StartChain(tree, gs)

Follow ==
    /\ pc = "chain"
    /\ \E i \in 1..Len(TreeNode(active_dialogue[1].tree, active_dialogue[1].node_id).choices) :
           FollowChoice(i)

NextChain == OpenChain \/ Follow

SpecChain == Init /\ [][NextChain]_vars

(***************************************************************************)
(* The loop body as one action: the frame's held keys and events go to the *)
(* branch that the session selects.                                        *)
(***************************************************************************)
\* A variant of Tick whose dialogue branch also moves the player.
Tick_moves_while_talking(held, dt_ms, inp) ==
    IF active_dialogue = None
    THEN ExploreFrame(held, dt_ms, inp) /\ UNCHANGED call
    ELSE /\ pc = "loop"
         /\ LET out == dialogue_frame(flags, active_dialogue[1], inp)
            IN  /\ flags' = out.flags
                /\ active_dialogue' = out.active_dialogue
                /\ pc' = out.pc
                /\ drawn' = IF out.pc = "loop" THEN render_choices(out.active_dialogue, out.flags) ELSE drawn
                /\ did' = Did(out.via, out.choice, Pressed(inp))
         /\ player_pos' = IF Walks(held)
                          THEN try_move(tile_map, player_pos, MoveDelta(held, dt_ms), flags, npc_pos)
                          ELSE player_pos
         /\ UNCHANGED << dialogues, tile_map, npc_pos, chain, call, diagonals >>

\* One iteration of the loop: `if active_dialogue is None: ... else: ...`.
Tick(held, dt_ms, inp) ==
    IF active_dialogue = None
    THEN ExploreFrame(held, dt_ms, inp) /\ UNCHANGED call
    ELSE DialogueFrame(inp)

\* The held keys and the events of the frames of SpecTick.
TickHeld == { {}, {"right"}, {"left"}, {"up"}, {"down", "right"} }

TickInputs == {inp \in DialogueInputs : inp.choose_number \in {NoNumber, 0}}

SetupTick == Setup("small", build_dialogues)

AnyTick == \E held \in TickHeld : \E inp \in TickInputs : Tick(held, FrameMillis, inp)

NextTick == SetupTick \/ AnyTick

SpecTick == Init /\ [][NextTick]_vars

(***************************************************************************)
(* Movement alone: frames at the rate of clock.tick(60), with no event,     *)
(* each recording the try_move call it makes, if it makes one.             *)
(***************************************************************************)
NoInput == [interact_pressed |-> FALSE, close_pressed |-> FALSE, nav_delta |-> 0,
            choose_number |-> NoNumber]

MoveFrame(held, dt_ms) ==
    /\ ExploreFrame(held, dt_ms, NoInput)
    /\ call' = IF Walks(held)
               THEN << [op |-> "try_move", old |-> player_pos, delta |-> MoveDelta(held, dt_ms)] >>
               ELSE None

SetupMove == Setup("small", build_dialogues)

\* The keys held in a frame of SpecMove: none, one (the player walks sideways and
\* up), two that cancel, and two perpendicular ones.
MoveHeld == { {}, {"left"}, {"right"}, {"up"}, {"left", "right"}, {"up", "right"} }

Move == \E held \in MoveHeld : MoveFrame(held, TickMillis)

NextMove == SetupMove \/ Move

SpecMove == Init /\ [][NextMove]_vars

(***************************************************************************)
(* The game as shipped, played one key at a time: the shipped map and      *)
(* graphs, frames with at most one move key held, and dialogue frames with *)
(* at most one event each.                                                 *)
(***************************************************************************)
QuestHeld == {held \in SUBSET MoveKeys : Cardinality(held) <= 1}

ExploreQuest == \E held \in QuestHeld : \E inp \in ExploreInputs :
                    ExploreFrame(held, FrameMillis, inp) /\ UNCHANGED call

QuestInputs ==
    {inp \in DialogueInputs :
        Cardinality({e \in {"interact", "close", "nav", "number"} :
                        \/ e = "interact" /\ inp.interact_pressed
                        \/ e = "close" /\ inp.close_pressed
                        \/ e = "nav" /\ inp.nav_delta # 0
                        \/ e = "number" /\ inp.choose_number # NoNumber}) <= 1}

ConverseQuest == \E inp \in QuestInputs : DialogueFrame(inp)

NextQuest == SetupShipped \/ ExploreQuest \/ ConverseQuest

SpecQuest == Init /\ [][NextQuest]_vars

(***************************************************************************)
(* Walking and interacting, on the small map (both npcs within reach at    *)
(* once) and on the shipped map (places out of everybody's reach); a       *)
(* session that opens stays as it is.                                      *)
(***************************************************************************)
TalkMaps == {"small", "shipped"}

SetupTalk == \E m \in TalkMaps : Setup(m, build_dialogues)

\* The keys held in a frame of SpecTalk: at most one, or down and right together.
TalkHeld == {held \in SUBSET MoveKeys : Cardinality(held) <= 1} \cup { {"down", "right"} }

ExploreTalk == \E held \in TalkHeld : \E inp \in ExploreInputs :
                   ExploreFrame(held, FrameMillis, inp) /\ UNCHANGED call

NextTalk == SetupTalk \/ ExploreTalk

SpecTalk == Init /\ [][NextTalk]_vars

(***************************************************************************)
(* The flag store alone: a sequence of set calls on gs = GameState().      *)
(***************************************************************************)
FlagKeys == {"got_coin", "gate_open", "seen"}

SetFlag(key, value) ==
    /\ pc = "setup"
    /\ flags' = set(flags, key, value)
    /\ call' = << [op |-> "set", key |-> key, value |-> value, before |-> flags] >>
    /\ UNCHANGED << pc, dialogues, active_dialogue, tile_map, npc_pos, player_pos, drawn, did, chain, diagonals >>

NextFlags == \E key \in FlagKeys : \E value \in BOOLEAN : SetFlag(key, value)

SpecFlags == Init /\ [][NextFlags]_vars

(***************************************************************************)
(* Queries of the tile map: after the setup, one call of rect_collides or  *)
(* of tile_at on a rectangle, flags or coordinates of the sets below.      *)
(***************************************************************************)
ProbeMaps == {"small", "probe", "blank"}

ProbeXs == {-25, -1, 0, 24, 36, 48, 72, 95, 96, 120, 144}
ProbeYs == {-25, -1, 0, 24, 36, 48, 72, 95, 96}
ProbeWs == {0, 1, 18, 24, 25, 49}
ProbeHs == {0, 1, 24, 30}

ProbeFlags ==
    { EmptyFlags, set(EmptyFlags, "gate_open", TRUE), set(EmptyFlags, "gate_open", FALSE),
      set(EmptyFlags, "got_coin", TRUE) }

ProbeTiles == -2..7

SetupProbe == \E m \in ProbeMaps : Setup(m, build_dialogues)

RectCollides(x, y, w, h, gs) ==
    /\ pc = "loop"
    /\ pc' = "probed"
    /\ call' = << [op |-> "rect_collides", r |-> << x, y, w, h >>, gs |-> gs,
                   result |-> rect_collides(tile_map, Rect(x, y, w, h), gs)] >>
    /\ UNCHANGED << dialogues, flags, active_dialogue, tile_map, npc_pos, player_pos, drawn, did, chain, diagonals >>

TileAt(tx, ty) ==
    /\ pc = "loop"
    /\ pc' = "probed"
    /\ call' = << [op |-> "tile_at", tx |-> tx, ty |-> ty, result |-> tile_at(tile_map, tx, ty)] >>
    /\ UNCHANGED << dialogues, flags, active_dialogue, tile_map, npc_pos, player_pos, drawn, did, chain, diagonals >>

ProbeRect ==
    \E x \in ProbeXs : \E y \in ProbeYs : \E w \in ProbeWs : \E h \in ProbeHs : \E gs \in ProbeFlags :
        RectCollides(x, y, w, h, gs)

ProbeTile == \E tx \in ProbeTiles : \E ty \in ProbeTiles : TileAt(tx, ty)

NextProbe == SetupProbe \/ ProbeRect \/ ProbeTile

SpecProbe == Init /\ [][NextProbe]_vars

(***************************************************************************)
(* Properties                                                              *)
(***************************************************************************)
SessionOpen == pc = "loop" /\ active_dialogue # None

CurrentChoices == enabled_choices(active_dialogue[1].tree, active_dialogue[1].node_id, flags)

SelectedLines == {i \in 1..Len(drawn) : drawn[i].is_sel}

\* C1: while a session is open, after every frame the highlighted index is in
\* [0, enabledCount) when the current node has enabled choices under the current
\* flags and is 0 when it has none; the panel as drawn then highlights exactly the
\* line of that index.
C1_IndexInRange ==
    SessionOpen =>
        LET n == Len(CurrentChoices)
            idx == active_dialogue[1].selected_idx
        IN  /\ n > 0 => (0 <= idx /\ idx < n)
            /\ n = 0 => idx = 0
            /\ Len(drawn) = Min(6, n)
            /\ n > 0 => SelectedLines = {idx + 1}

\* A frame applied a choice whose effect unset a flag, and the node entered has no
\* enabled choice.
C1_Witness ==
    /\ SessionOpen
    /\ did.choice = "drop"
    /\ active_dialogue[1].node_id = "n2"
    /\ Len(CurrentChoices) = 0
    /\ active_dialogue[1].selected_idx = 0

\* C2: in every frame in which a session is open and the close input is pressed,
\* the session is destroyed by the end of the frame, whatever else is pressed.
C2_CancelUnconditional ==
    [][(SessionOpen /\ "close" \in did'.pressed) => active_dialogue' = None]_vars

\* A frame with the close input pressed applied a choice and left the session open.
C2_Witness ==
    /\ SessionOpen
    /\ "close" \in did.pressed
    /\ did.via \in {"hotkey", "confirm"}

\* The choice of the current node that the frame applied (did'.choice is its text).
AppliedChoice ==
    LET node == TreeNode(active_dialogue[1].tree, active_dialogue[1].node_id)
    IN  node.choices[CHOOSE i \in 1..Len(node.choices) : node.choices[i].text = did'.choice]

AfterEffect(e, gs) ==
    IF e.none THEN gs
    ELSE [k \in (DOMAIN gs) \cup {e.key} |-> IF k = e.key THEN e.value ELSE gs[k]]

ChoiceApplied == SessionOpen /\ did'.via \in {"hotkey", "confirm"}

\* C3: applying a choice first applies its effect to the flags; then an absent
\* target destroys the session, and a present target makes the target node the
\* current node of the same session, applies that node's on-enter effect and
\* resets the highlighted index to 0.
C3_ApplyChoice ==
    [][ChoiceApplied =>
          LET c == AppliedChoice
              gs1 == AfterEffect(c.effect, flags)
          IN  IF c.next_id = NoneId
              THEN active_dialogue' = None /\ flags' = gs1
              ELSE /\ active_dialogue' # None
                   /\ active_dialogue'[1].node_id = c.next_id
                   /\ active_dialogue'[1].selected_idx = 0
                   /\ active_dialogue'[1].tree = active_dialogue[1].tree
                   /\ active_dialogue'[1].npc_name = active_dialogue[1].npc_name
                   /\ flags' = AfterEffect(TreeNode(active_dialogue[1].tree, c.next_id).on_enter, gs1)
                   /\ pc' = "loop"]_vars

\* "void" was applied: its effect unset f, then entering n3 set it again.
C3_Witness ==
    /\ SessionOpen
    /\ did.choice = "void"
    /\ active_dialogue[1].node_id = "n3"
    /\ active_dialogue[1].selected_idx = 0
    /\ has(flags, "f")
    /\ ~has(flags, "g")

\* A choice is enabled when it has no predicate or its predicate holds.
IsEnabled(c, gs) ==
    \/ c.enabled_if.none
    \/ \A i \in 1..Len(c.enabled_if.lits) :
          (c.enabled_if.lits[i].key \in DOMAIN gs /\ gs[c.enabled_if.lits[i].key])
              <=> c.enabled_if.lits[i].want

\* The positions, in a node's choice sequence, of its enabled choices.
EnabledPositions(tree, node_id, gs) ==
    {i \in 1..Len(TreeNode(tree, node_id).choices) : IsEnabled(TreeNode(tree, node_id).choices[i], gs)}

\* The position in the choice sequence of the k-th (from 0) enabled choice.
NthEnabled(S, k) == CHOOSE i \in S : Cardinality({j \in S : j < i}) = k

NodeEntered ==
    /\ pc' = "loop"
    /\ active_dialogue' # None
    /\ did'.via \in {"open", "hotkey", "confirm"}

\* C4: when a frame enters a node (opening a session, or following a choice), the
\* flags at the end of the frame hold the node's on-enter effect, on top of the
\* effect of the choice followed, and the choice lines drawn in that frame are
\* exactly the node's choices that are enabled under those flags.
C4_OnEnterBeforeChoices ==
    [][NodeEntered =>
          LET d == active_dialogue'[1]
              node == TreeNode(d.tree, d.node_id)
              en == EnabledPositions(d.tree, d.node_id, flags')
              lines == drawn'
          IN  /\ ~node.on_enter.none =>
                    (node.on_enter.key \in DOMAIN flags' /\ flags'[node.on_enter.key] = node.on_enter.value)
              /\ (did'.via # "open" /\ ~AppliedChoice.effect.none
                    /\ (node.on_enter.none \/ node.on_enter.key # AppliedChoice.effect.key)) =>
                    (AppliedChoice.effect.key \in DOMAIN flags'
                        /\ flags'[AppliedChoice.effect.key] = AppliedChoice.effect.value)
              /\ Len(lines) = Cardinality(en)
              /\ \A k \in 1..Len(lines) :
                    lines[k].text = node.choices[NthEnabled(en, k - 1)].text]_vars

\* A session was opened on GraphA: "greet" is drawn, which only the on-enter
\* effect of the start node enables.
C4_Witness ==
    /\ SessionOpen
    /\ did.via = "open"
    /\ active_dialogue[1].tree = "GraphA"
    /\ flags = [g |-> TRUE]
    /\ \E k \in 1..Len(drawn) : drawn[k].text = "greet"

\* The frame on the open session with input inp.
FrameOn(inp) == dialogue_frame(flags, active_dialogue[1], inp)

\* C5: pressing number key N while a session is open applies the choice at
\* position N-1 of the enabled choices of the current node when there is one; when
\* there is none and nothing else is pressed, the session, its node, its
\* highlighted index and the flags stay as they are.
C5_Hotkey ==
    SessionOpen =>
        \A inp \in DialogueInputs :
            inp.choose_number # NoNumber =>
                LET d == active_dialogue[1]
                    node == TreeNode(d.tree, d.node_id)
                    en == EnabledPositions(d.tree, d.node_id, flags)
                    out == FrameOn(inp)
                IN  IF inp.choose_number < Cardinality(en)
                    THEN /\ out.via = "hotkey"
                         /\ out.choice = << node.choices[NthEnabled(en, inp.choose_number)] >>
                    ELSE (~inp.interact_pressed /\ ~inp.close_pressed /\ inp.nav_delta = 0) =>
                             /\ out.via = "none"
                             /\ out.active_dialogue = active_dialogue
                             /\ out.flags = flags
                             /\ out.pc = "loop"

\* Key 1 applied the Elder's "I already have it.", the second choice of its node
\* and the first of the enabled ones.
C5_Witness ==
    /\ SessionOpen
    /\ did.via = "hotkey"
    /\ did.choice = "I already have it."
    /\ active_dialogue[1].node_id = "start"

\* C6: a confirm applies the choice at the highlighted index of the enabled
\* choices (the index after the frame's navigation); with no enabled choice it
\* changes neither the node, the flags nor whether the session is open, and
\* nothing is raised.
C6_Confirm ==
    SessionOpen =>
        \A inp \in DialogueInputs :
            inp.interact_pressed =>
                LET d == active_dialogue[1]
                    node == TreeNode(d.tree, d.node_id)
                    en == EnabledPositions(d.tree, d.node_id, flags)
                    n == Cardinality(en)
                    out == FrameOn(inp)
                IN  /\ (n > 0 /\ (inp.choose_number = NoNumber \/ inp.choose_number >= n)) =>
                          /\ out.via = "confirm"
                          /\ out.choice =
                                << node.choices[NthEnabled(en, (d.selected_idx + inp.nav_delta) % n)] >>
                    /\ (n = 0 /\ ~inp.close_pressed) =>
                          /\ out.via = "none"
                          /\ out.pc = "loop"
                          /\ out.flags = flags
                          /\ out.active_dialogue # None
                          /\ out.active_dialogue[1].node_id = d.node_id

\* A confirm was pressed in a node without enabled choices; the session is still
\* open in that node.
C6_Witness ==
    /\ SessionOpen
    /\ Len(CurrentChoices) = 0
    /\ did.via = "none"
    /\ did.pressed = {"interact"}

CurrentTexts == {CurrentChoices[i].text : i \in 1..Len(CurrentChoices)}

DrawnTexts == {drawn[i].text : i \in 1..Len(drawn)}

AtNode(tree, node_id) ==
    /\ SessionOpen
    /\ active_dialogue[1].tree = tree
    /\ active_dialogue[1].node_id = node_id

\* C7: with no flag set, at the Elder's "work" node the choice "Thanks." is among
\* the enabled choices (and drawn), and a frame that applies it sets got_coin and
\* makes the Elder's start node the current node, the session staying open.
C7_ElderThanks ==
    [][(AtNode("ElderTree", "work") /\ flags = EmptyFlags) =>
          /\ "Thanks." \in CurrentTexts
          /\ "Thanks." \in DrawnTexts
          /\ did'.choice = "Thanks." =>
                /\ pc' = "loop"
                /\ flags' = [got_coin |-> TRUE]
                /\ active_dialogue' # None
                /\ active_dialogue'[1].tree = "ElderTree"
                /\ active_dialogue'[1].node_id = "start"]_vars

\* "Thanks." was applied from the state without flags.
C7_Witness ==
    /\ AtNode("ElderTree", "start")
    /\ did.choice = "Thanks."
    /\ flags = [got_coin |-> TRUE]

CoinChoice == "Here's a coin from Elder Kora."

\* C8 as stated: the Gatekeeper's coin choice is not enabled while got_coin is
\* false, and a frame that applies it sets gate_open and ends the session, after
\* which the door tile does not block.
C8_CoinOpensGate ==
    [][/\ (AtNode("GatekeeperTree", "proof") /\ ~has(flags, "got_coin")) =>
              CoinChoice \notin CurrentTexts
       /\ (SessionOpen /\ active_dialogue[1].tree = "GatekeeperTree" /\ did'.choice = CoinChoice) =>
              /\ has(flags', "gate_open")
              /\ active_dialogue' = None
              /\ ~is_blocking_tile(door_ch, flags')]_vars

\* C8 as amended: the coin choice is not enabled while got_coin is false; a frame
\* that applies it leaves the flags as they are, the door still blocking, and moves
\* the session to the Gatekeeper's "open" node; a frame that applies that node's
\* "On my way." sets gate_open and ends the session, after which the door tile does
\* not block.
C8_GateOpensInTwoSteps ==
    [][/\ (AtNode("GatekeeperTree", "proof") /\ ~has(flags, "got_coin")) =>
              (CoinChoice \notin CurrentTexts /\ CoinChoice \notin DrawnTexts)
       /\ (SessionOpen /\ active_dialogue[1].tree = "GatekeeperTree" /\ did'.choice = CoinChoice) =>
              /\ flags' = flags
              /\ ~has(flags', "gate_open")
              /\ is_blocking_tile(door_ch, flags')
              /\ active_dialogue' # None
              /\ active_dialogue'[1].node_id = "open"
       /\ (SessionOpen /\ active_dialogue[1].tree = "GatekeeperTree" /\ did'.choice = "On my way.") =>
              /\ active_dialogue[1].node_id = "open"
              /\ is_blocking_tile(door_ch, flags)
              /\ has(flags', "gate_open")
              /\ active_dialogue' = None
              /\ ~is_blocking_tile(door_ch, flags')]_vars

\* "On my way." was applied: the session is over and the door does not block.
C8_Witness ==
    /\ pc = "loop"
    /\ active_dialogue = None
    /\ did.choice = "On my way."
    /\ has(flags, "got_coin")
    /\ has(flags, "gate_open")
    /\ ~is_blocking_tile(door_ch, flags)

NodeCount(tree) == Cardinality(DOMAIN Trees[tree].nodes)

InChain == pc = "chain" /\ active_dialogue # None

\* C9 as stated: a chain of followed choices from the start node has at most
\* |nodes| steps.
C9_ChainBounded == InChain => chain <= NodeCount(active_dialogue[1].tree)

\* Whether a session in node_id under gs can be ended by at most k enabled choices,
\* the last one with an absent target.
RECURSIVE CanEnd(_, _, _, _)
CanEnd(tree, node_id, gs, k) ==
    /\ k > 0
    /\ \E i \in EnabledPositions(tree, node_id, gs) :
          LET c == TreeNode(tree, node_id).choices[i]
              gs1 == AfterEffect(c.effect, gs)
          IN  \/ c.next_id = NoneId
              \/ /\ c.next_id \in DOMAIN Trees[tree].nodes
                 /\ CanEnd(tree, c.next_id, AfterEffect(TreeNode(tree, c.next_id).on_enter, gs1), k - 1)

ShippedTrees == {"ElderTree", "GatekeeperTree"}

\* C9 as amended: a chain of followed choices only visits nodes of the graph and
\* never raises, but it need not end; in the shipped graphs every state of a chain
\* can be ended by at most |nodes| enabled choices.
C9_ChainStaysInGraph ==
    /\ pc # "KeyError"
    /\ InChain =>
          LET d == active_dialogue[1]
          IN  /\ d.node_id \in DOMAIN Trees[d.tree].nodes
              /\ d.selected_idx = 0
              /\ d.tree \in ShippedTrees => CanEnd(d.tree, d.node_id, flags, NodeCount(d.tree))

\* A chain on the Elder's graph is longer than the graph has nodes.
C9_Witness ==
    /\ InChain
    /\ active_dialogue[1].tree = "ElderTree"
    /\ chain > NodeCount("ElderTree")

\* A graph is valid when its start id and every present target are nodes of it.
ValidTree(t) ==
    /\ t.start_id \in DOMAIN t.nodes
    /\ \A id \in DOMAIN t.nodes :
          \A i \in 1..Len(t.nodes[id].choices) :
              t.nodes[id].choices[i].next_id \in (DOMAIN t.nodes) \cup {NoneId}

\* C10: the construction of a graph whose start id or some present target is no
\* node fails, so that the loop only runs on valid graphs and no lookup fails
\* during play.
C10_ConstructionValidates ==
    /\ pc \in {"loop", "KeyError"} => \A n \in DOMAIN dialogues : ValidTree(Trees[dialogues[n]])
    /\ pc # "KeyError"

\* A lookup failed during play, in a session on a graph that was constructed with
\* a target that is no node.
C10_Witness ==
    /\ pc = "KeyError"
    /\ active_dialogue # None
    /\ active_dialogue[1].tree = "GraphDangling"
    /\ ~HasNode("GraphDangling", active_dialogue[1].node_id)

\* Whether the player's collider, with the player at p, collides with nothing.
PlayerFree(p) ==
    ~collides(tile_map, collider_rect(p, Player.w, Player.h), "player", flags, p, npc_pos)

\* What try_move leaves of a step from old to new, given which of the colliders at
\* (new.x, old.y), at new and at (old.x, new.y) are free.
AxisOutcome(old, new, x_free, xy_free, y_free) ==
    /\ (x_free /\ ~xy_free) => player_pos = Pos(new.x, old.y)
    /\ (~x_free /\ y_free) => player_pos = Pos(old.x, new.y)
    /\ (x_free /\ xy_free) => player_pos = new
    /\ (~x_free /\ ~y_free) => player_pos = old

AxisSeparated(old, d, new) ==
    IF d.x = Float(0) /\ d.y = Float(0) THEN player_pos = old
    ELSE AxisOutcome(old, new, PlayerFree(Pos(new.x, old.y)), PlayerFree(new), PlayerFree(Pos(old.x, new.y)))

\* C11: try_move resolves the two axes one after the other: the X step is kept
\* iff the collider at (old.x + dx, old.y) is free, then the Y step is kept iff
\* the collider at (resolved x, old.y + dy) is free; so a delta whose X step is free
\* and whose destination is not ends at (old.x + dx, old.y), one whose X step
\* collides and whose Y step from old.x is free ends at (old.x, old.y + dy), and a
\* zero delta leaves the position as it is.
C11_AxisSeparated ==
    /\ pc = "loop" =>
           try_move(tile_map, player_pos, Pos(Float(0), Float(0)), flags, npc_pos) = player_pos
    /\ call # None =>
           AxisSeparated(call[1].old, call[1].delta,
                         Pos(fadd(call[1].old.x, call[1].delta.x), fadd(call[1].old.y, call[1].delta.y)))

\* A diagonal move whose X step was free and whose destination was not: the
\* player slid along X.
C11_Witness ==
    /\ call # None
    /\ call[1].delta.x # Float(0)
    /\ call[1].delta.y # Float(0)
    /\ PlayerFree(Pos(fadd(call[1].old.x, call[1].delta.x), call[1].old.y))
    /\ ~PlayerFree(Pos(fadd(call[1].old.x, call[1].delta.x), fadd(call[1].old.y, call[1].delta.y)))
    /\ player_pos = Pos(fadd(call[1].old.x, call[1].delta.x), call[1].old.y)

Exploring == pc = "loop" /\ active_dialogue = None

\* C12: a frame that starts with a session open leaves the player and every npc
\* where they are, whatever keys are held; a frame that starts with no session
\* open and has no interact press leaves the flags as they are and no session
\* open, whatever navigation, number or close events it has.
C12_ModesExclusive ==
    [][/\ SessionOpen => (player_pos' = player_pos /\ npc_pos' = npc_pos)
       /\ (Exploring /\ "interact" \notin did'.pressed) =>
             (flags' = flags /\ active_dialogue' = None /\ pc' = "loop")]_vars

\* A frame of an open session changed nothing of the session (it applied no
\* choice and did not close), with the player away from the spawn position: frames
\* that moved the player came before the session, and this frame moved nobody.
C12_Witness ==
    /\ SessionOpen
    /\ did.via = "none"
    /\ player_pos # pos_from_tile(tile_map, "P", Player.w, Player.h, << 2, 2 >>)

\* C13: a step from a state with a session open to a state with none is a frame
\* with the close event pressed that took the cancel branch, or a frame that
\* applied a choice with an absent target; a frame that took no branch, and a
\* frame that applied a choice with a present target, leave the session open.
C13_ExitsOnly ==
    [][SessionOpen =>
          /\ active_dialogue' = None =>
                \/ did'.via = "cancel" /\ "close" \in did'.pressed
                \/ did'.via \in {"hotkey", "confirm"} /\ AppliedChoice.next_id = NoneId
          /\ did'.via = "none" => active_dialogue' # None
          /\ (did'.via \in {"hotkey", "confirm"} /\ AppliedChoice.next_id # NoneId) =>
                active_dialogue' # None]_vars

\* The session was ended by confirming "Goodbye.", a choice with no target.
C13_Witness ==
    /\ Exploring
    /\ did.via = "confirm"
    /\ did.choice = "Goodbye."
    /\ "close" \notin did.pressed

ShippedGraphs == build_dialogues.elder = dialogues.elder /\ build_dialogues.gatekeeper = dialogues.gatekeeper

\* C14: a frame that applies no choice leaves the flags as they are: a frame that
\* moves or is blocked, one that opens a session on a shipped graph, one that
\* navigates, has an out-of-range number key or cancels; so does the start of the
\* loop.
C14_FlagsOnlyByEffects ==
    [][(/\ did'.via \notin {"hotkey", "confirm"}
        /\ did'.via = "open" => ShippedGraphs) => flags' = flags]_vars

\* A session was cancelled after the coin was given: the flag is still there.
C14_Witness ==
    /\ Exploring
    /\ did.via = "cancel"
    /\ has(flags, "got_coin")

\* (i + d) mod n for d in {-1, 0, 1} and 0 <= i < n, by cases.
Wrapped(i, d, n) ==
    IF i + d = n THEN 0 ELSE IF i + d = -1 THEN n - 1 ELSE i + d

\* C15: with enabled choices, a frame with a navigation of d and nothing else
\* leaves the highlighted index at (i + d) mod enabledCount and everything else of
\* the session and the flags as they were; a confirm in the same frame (with no
\* number key in range) applies the enabled choice at that index.
C15_NavigationWraps ==
    SessionOpen =>
        \A inp \in DialogueInputs :
            LET d == active_dialogue[1]
                node == TreeNode(d.tree, d.node_id)
                en == EnabledPositions(d.tree, d.node_id, flags)
                n == Cardinality(en)
                w == Wrapped(d.selected_idx, inp.nav_delta, n)
                out == FrameOn(inp)
            IN  (n > 0 /\ inp.nav_delta # 0) =>
                  /\ (~inp.interact_pressed /\ ~inp.close_pressed /\ inp.choose_number = NoNumber) =>
                        /\ out.via = "none"
                        /\ out.flags = flags
                        /\ out.active_dialogue = << [d EXCEPT !.selected_idx = w] >>
                  /\ (inp.interact_pressed /\ (inp.choose_number = NoNumber \/ inp.choose_number >= n)) =>
                        /\ out.via = "confirm"
                        /\ out.choice = << node.choices[NthEnabled(en, w)] >>

\* The last of at least three enabled choices is highlighted after a frame that
\* only navigated.
C15_Witness ==
    /\ SessionOpen
    /\ did.via = "none"
    /\ did.pressed = {}
    /\ Len(CurrentChoices) >= 3
    /\ active_dialogue[1].selected_idx = Len(CurrentChoices) - 1

Called(op) == call # None /\ call[1].op = op

\* floor(a / tile_size), as the unique q with q * tile_size <= a < (q + 1) * tile_size.
FloorTile(a) == CHOOSE q \in -4..10 : q * tile_size <= a /\ a < (q + 1) * tile_size

\* The code stored for an in-range tile: the raw character, a spawn letter
\* counting as floor and a position past the end of its row as void.
StoredCode(m, tx, ty) ==
    LET row == RawMaps[m][ty + 1]
    IN  IF tx + 1 > Len(row) THEN " "
        ELSE IF row[tx + 1] \in {"P", "E", "G"} THEN "."
        ELSE row[tx + 1]

InGrid(m, tx, ty) ==
    /\ 0 <= tx /\ 0 <= ty
    /\ ty < Len(RawMaps[m])
    /\ \E y \in 1..Len(RawMaps[m]) : tx < Len(RawMaps[m][y])

\* Whether the tile blocks: outside the grid as a wall; a wall always; a door
\* unless gate_open is set; nothing else.
TileBlocks(m, tx, ty, gs) ==
    IF ~InGrid(m, tx, ty) THEN TRUE
    ELSE \/ StoredCode(m, tx, ty) = "x"
         \/ StoredCode(m, tx, ty) = "D" /\ ~("gate_open" \in DOMAIN gs /\ gs["gate_open"])

\* C16: rect_collides(r, flags) is true exactly when some tile (tx, ty) with
\* floor(left / tile) <= tx <= floor((right - 1) / tile) and
\* floor(top / tile) <= ty <= floor((bottom - 1) / tile) blocks under the flags.
C16_RectCollides ==
    Called("rect_collides") =>
        LET left == call[1].r[1]
            top == call[1].r[2]
            right == call[1].r[1] + call[1].r[3]
            bottom == call[1].r[2] + call[1].r[4]
        IN  call[1].result <=>
                \E tx \in FloorTile(left)..FloorTile(right - 1) :
                    \E ty \in FloorTile(top)..FloorTile(bottom - 1) :
                        TileBlocks(tile_map, tx, ty, call[1].gs)

\* The rectangle of the small map's door tile does not collide once gate_open is set.
C16_Witness ==
    /\ Called("rect_collides")
    /\ tile_map = "small"
    /\ call[1].r = << 5 * tile_size, 2 * tile_size, tile_size, tile_size >>
    /\ has(call[1].gs, "gate_open")
    /\ ~call[1].result

\* C17: tile_at(tx, ty) is the wall code for every coordinate outside the grid
\* and the stored code, rows padded with void to the widest row, inside it.
C17_ClosedWorld ==
    Called("tile_at") =>
        call[1].result =
            IF InGrid(tile_map, call[1].tx, call[1].ty)
            THEN StoredCode(tile_map, call[1].tx, call[1].ty)
            ELSE "x"

\* A query east of the grid, in a row that is floor up to the edge, gave wall.
C17_Witness ==
    /\ Called("tile_at")
    /\ tile_map = "probe"
    /\ call[1].tx = 4
    /\ call[1].ty = 2
    /\ call[1].result = wall_ch
    /\ StoredCode("probe", 3, 2) = void_ch

\* The whole pixels of a coordinate, its fraction dropped.
Whole(v) == IF v[1] < 0 /\ (v[2] > 0 \/ v[3] > 0) THEN v[1] + 1 ELSE v[1]

\* The left column and the top row of the collider, 18 x 12, of a sprite w wide
\* at x and of a sprite h high at y.
ColliderLeft(x, w) == Whole(fadd(x, HalfOf(w - 18)))
ColliderTop(y, h) == Whole(fadd(fadd(y, Float(h)), Float(-12)))

\* The squared distance, in pixels, of the collider centers of the player at ppos and
\* of npc n: a collider is 18 x 12 whole pixels, centered on the sprite's width and
\* at its foot.
Dist2(px, py, nx, ny) == (px - nx) * (px - nx) + (py - ny) * (py - ny)

CenterDist2(ppos, n) ==
    Dist2(ColliderLeft(ppos.x, Player.w) + 9, ColliderTop(ppos.y, Player.h) + 6,
          ColliderLeft(npc_pos[n].x, Npc[n].w) + 9, ColliderTop(npc_pos[n].y, Npc[n].h) + 6)

\* The positions in npcs of those within their own radius of the player at ppos.
InReach(ppos) ==
    {i \in 1..Len(npcs) :
        CenterDist2(ppos, npcs[i]) <= Npc[npcs[i]].interaction_radius * Npc[npcs[i]].interaction_radius}

\* C18: a frame without a session and with an interact press opens a session with
\* the first npc, in the order of npcs, that is within its own radius of the
\* player where the frame's move left it, at the start node of that npc's graph
\* with index 0; when no npc is within its radius no session opens and the flags
\* stay; without an interact press no session opens.
C18_FirstTalkable ==
    [][Exploring =>
          IF "interact" \in did'.pressed
          THEN LET q == InReach(player_pos')
                   n == npcs[CHOOSE i \in q : \A j \in q : i <= j]
               IN  IF q = {}
                   THEN active_dialogue' = None /\ flags' = flags /\ did'.via = "none"
                   ELSE /\ did'.via = "open"
                        /\ active_dialogue' =
                              << [npc_name |-> Npc[n].name, tree |-> dialogues[n],
                                  node_id |-> Trees[dialogues[n]].start_id, selected_idx |-> 0] >>
          ELSE active_dialogue' = None]_vars

\* The player is at a place of the shipped map where nobody is within reach.
C18_NobodyInReach ==
    /\ Exploring
    /\ tile_map = "shipped"
    /\ player_pos # pos_from_tile("shipped", "P", Player.w, Player.h, << 2, 2 >>)
    /\ InReach(player_pos) = {}

\* A session with the Elder was opened where the Gatekeeper is within reach too
\* and strictly closer.
C18_Witness ==
    /\ SessionOpen
    /\ did.via = "open"
    /\ active_dialogue[1].npc_name = "Elder Kora"
    /\ InReach(player_pos) = {1, 2}
    /\ CenterDist2(player_pos, "gatekeeper") < CenterDist2(player_pos, "elder")

\* C19: has(k) is false for every key that was never set; after set(k, v) has(k)
\* is v, and has(j) is what it was for every other key j.
C19_FlagsReadWrite ==
    /\ \A k \in FlagKeys : k \notin DOMAIN flags => has(flags, k) = FALSE
    /\ Called("set") =>
          /\ has(flags, call[1].key) = call[1].value
          /\ \A j \in FlagKeys \ {call[1].key} : has(flags, j) = has(call[1].before, j)

\* set(k, false) on a key that was set to true, with another key set and a third
\* never set.
C19_Witness ==
    /\ Called("set")
    /\ call[1].key = "got_coin"
    /\ call[1].value = FALSE
    /\ has(call[1].before, "got_coin")
    /\ has(flags, "gate_open")
    /\ "seen" \notin DOMAIN flags
    /\ ~has(flags, "got_coin")

\* The pixels of a collider, 18 x 12, centered on the sprite's width and at its
\* foot: columns x0 .. x1 - 1 and rows y0 .. y1 - 1.
BoxAt(x0, y0) == [x0 |-> x0, x1 |-> x0 + 18, y0 |-> y0, y1 |-> y0 + 12]

Box(pos, w, h) == BoxAt(ColliderLeft(pos.x, w), ColliderTop(pos.y, h))

PlayerBox == Box(player_pos, Player.w, Player.h)

\* The tiles that hold a pixel of the box b.
TilesOf(b) == (FloorTile(b.x0)..FloorTile(b.x1 - 1)) \X (FloorTile(b.y0)..FloorTile(b.y1 - 1))

\* The tiles that hold a pixel of the player's collider.
PlayerTiles == TilesOf(PlayerBox)

\* The boxes a and b share a pixel.
Overlap(a, b) == a.x0 < b.x1 /\ b.x0 < a.x1 /\ a.y0 < b.y1 /\ b.y0 < a.y1

OverlapsNpc(n) == Overlap(PlayerBox, Box(npc_pos[n], Npc[n].w, Npc[n].h))

\* C20: once the loop runs, the player's collider holds no pixel of a tile that
\* blocks under the current flags (a wall, the outside, the door while gate_open
\* is not set) and no pixel of an npc's collider.
C20_NeverInside ==
    pc = "loop" =>
        /\ \A t \in PlayerTiles : ~TileBlocks(tile_map, t[1], t[2], flags)
        /\ \A n \in DOMAIN Npc : ~OverlapsNpc(n)

\* The gate is open and the player's collider is on the door tile of the small map.
C20_Witness ==
    /\ Exploring
    /\ tile_map = "small"
    /\ has(flags, "gate_open")
    /\ \E t \in PlayerTiles : StoredCode("small", t[1], t[2]) = "D"

\* C21: in the shipped game gate_open is only set when got_coin is.
C21_GateNeedsCoin == has(flags, "gate_open") => has(flags, "got_coin")

\* The gate was opened, the session with the Gatekeeper ended, and a new session
\* with the Gatekeeper is open.
C21_Witness ==
    /\ SessionOpen
    /\ active_dialogue[1].tree = "GatekeeperTree"
    /\ did.via = "open"
    /\ has(flags, "gate_open")
    /\ has(flags, "got_coin")

\* C22: got_coin and gate_open, once true, are true in every later state; while
\* got_coin is true the Elder's "Thanks." is not among the enabled choices of
\* its node; a door that does not block does not block in any later state.
C22_FlagsMonotone ==
    /\ [](has(flags, "got_coin") =>
             "Thanks." \notin {c.text : c \in {enabled_choices("ElderTree", "work", flags)[i] :
                                  i \in 1..Len(enabled_choices("ElderTree", "work", flags))}})
    /\ [][/\ has(flags, "got_coin") => has(flags', "got_coin")
          /\ has(flags, "gate_open") => has(flags', "gate_open")
          /\ ~is_blocking_tile(door_ch, flags) => ~is_blocking_tile(door_ch, flags')]_vars

\* With the coin taken and the gate open, the Elder's "work" node was entered
\* again: only "I already have it." is drawn.
C22_Witness ==
    /\ AtNode("ElderTree", "work")
    /\ has(flags, "got_coin")
    /\ has(flags, "gate_open")
    /\ DrawnTexts = {"I already have it."}

\* C23: in the shipped graphs the node of an open session has an enabled choice,
\* and the session can be ended by at most |nodes| enabled choices; so has every
\* node of the two graphs under the flags of every reachable state.
C23_NoDeadEnd ==
    pc = "loop" =>
        /\ SessionOpen =>
              /\ Len(CurrentChoices) > 0
              /\ Len(drawn) > 0
              /\ CanEnd(active_dialogue[1].tree, active_dialogue[1].node_id, flags,
                        NodeCount(active_dialogue[1].tree))
        /\ \A tree \in ShippedTrees : \A node_id \in DOMAIN Trees[tree].nodes :
              /\ Len(enabled_choices(tree, node_id, flags)) > 0
              /\ CanEnd(tree, node_id, flags, NodeCount(tree))

\* The Gatekeeper's "proof" node with the gate open: of its three choices only
\* "The gate is already open." is enabled.
C23_Witness ==
    /\ AtNode("GatekeeperTree", "proof")
    /\ has(flags, "gate_open")
    /\ DrawnTexts = {"The gate is already open."}

\* The flags and the session after the one choice c is applied in the session d
\* with the flags gs: its effect, then the move to its target and the on-enter
\* effect there, or the end of the session.
AfterChoice(gs, d, c) ==
    LET gs1 == AfterEffect(c.effect, gs)
    IN  IF c.next_id = NoneId
        THEN [flags |-> gs1, active_dialogue |-> None]
        ELSE [flags |-> AfterEffect(TreeNode(d.tree, c.next_id).on_enter, gs1),
              active_dialogue |-> << [d EXCEPT !.node_id = c.next_id, !.selected_idx = 0] >>]

\* C24: a frame of an open session takes exactly one of the branches, in the
\* order: number key in range, confirm (with enabled choices), cancel; a frame that
\* takes the hotkey or the confirm branch applies that one choice and nothing
\* more, whatever else is pressed; a frame that opens a session leaves it at the
\* start node with index 0 and the flags as they were.
C24_OneActionPerTick ==
    /\ [](SessionOpen =>
             \A inp \in DialogueInputs :
                 LET d == active_dialogue[1]
                     node == TreeNode(d.tree, d.node_id)
                     en == EnabledPositions(d.tree, d.node_id, flags)
                     n == Cardinality(en)
                     in_range == inp.choose_number # NoNumber /\ inp.choose_number < n
                     idx == Wrapped(d.selected_idx, inp.nav_delta, n)
                     out == FrameOn(inp)
                 IN  /\ out.via = IF in_range THEN "hotkey"
                                  ELSE IF inp.interact_pressed /\ n > 0 THEN "confirm"
                                  ELSE IF inp.close_pressed THEN "cancel"
                                  ELSE "none"
                     /\ in_range =>
                           LET a == AfterChoice(flags, d, node.choices[NthEnabled(en, inp.choose_number)])
                           IN  out.flags = a.flags /\ out.active_dialogue = a.active_dialogue
                     /\ (~in_range /\ inp.interact_pressed /\ n > 0) =>
                           LET a == AfterChoice(flags, [d EXCEPT !.selected_idx = idx],
                                                node.choices[NthEnabled(en, idx)])
                           IN  out.flags = a.flags /\ out.active_dialogue = a.active_dialogue
                     /\ (~in_range /\ ~(inp.interact_pressed /\ n > 0) /\ inp.close_pressed) =>
                           out.flags = flags /\ out.active_dialogue = None)
    /\ [][(Exploring /\ active_dialogue' # None) =>
             /\ did'.via = "open"
             /\ active_dialogue'[1].node_id = Trees[active_dialogue'[1].tree].start_id
             /\ active_dialogue'[1].selected_idx = 0
             /\ flags' = flags]_vars

\* A frame with a number key in range, the interact and the close press applied the
\* choice of the number key: the session is at that choice's target.
C24_Witness ==
    /\ AtNode("ElderTree", "who")
    /\ did.via = "hotkey"
    /\ did.choice = "Who are you?"
    /\ did.pressed = {"interact", "close"}

====
